---- MODULE Spec2Model ----
(***************************************************************************)
(* State-machine model of the service layer of mentor.cdigodaevolucao:     *)
(*   src/services/geminiService.ts  credential pools and fallback invoker  *)
(*   src/services/authService.ts    identity list and session store        *)
(*                                                                         *)
(* geminiService.ts holds two definitions of every symbol: lines 1-134     *)
(* (revision 1) and lines 137-329 (revision 2).  Both are modelled; the    *)
(* variable rev says which of the two is the one that runs.                *)
(***************************************************************************)
EXTENDS Integers, Sequences, FiniteSets, Bags, TLC

VARIABLES
    rev,          \* which definition of geminiService.ts runs: 1 or 2
    processEnv,   \* process.env: name -> string ("" = not set)
    metaEnv,      \* import.meta.env: name -> string ("" = not set)
    API_GROUPS,   \* the module constant: group -> sequence of strings
    voiceKey,     \* outcome of the last getVoiceApiKey call
    pc,           \* position of the executeWithFallback call
    group,        \* its group argument
    uniqueKeys,   \* its local uniqueKeys
    idx,          \* number of loop iterations begun (position in uniqueKeys)
    lastError,    \* its local lastError
    inflight,     \* indexes of uniqueKeys whose operation call is unresolved
    calls,        \* history: the operation calls made by this invoke
    outcome,      \* what the invoke returned or threw
    invokes,      \* number of invokes completed
    users,        \* localStorage[DB_USERS_KEY], parsed: sequence of records
    session,      \* localStorage[SESSION_KEY]: NoItem or a serialized item
    pending,      \* authService calls suspended in their delay
    ret,          \* what the last completed authService call produced
    nextId,       \* source of generateId values
    now,          \* the clock read by new Date()
    loggedOut     \* history: a logout call has completed and no register or
                  \* login call has been invoked since

geminiVars == <<rev, processEnv, metaEnv, API_GROUPS, voiceKey, pc, group,
                uniqueKeys, idx, lastError, inflight, calls, outcome, invokes>>
authVars == <<users, session, pending, ret, nextId, now, loggedOut>>
vars == <<geminiVars, authVars>>

-----------------------------------------------------------------------------
(* Bounds of the model *)

MaxInvokes == 1     \* invokes completed before the invoker stops accepting
MaxUsers == 2       \* identity records the list may hold
MaxPending == 2     \* authService calls suspended at the same time
MaxClock == 1       \* last clock tick

-----------------------------------------------------------------------------
(* Environment and credential pools: geminiService.ts 6-22 and 140-182 *)

Groups == {"A", "B", "C"}

MasterVar == "API_KEY"

SlotNames(g) ==
    IF g = "C" THEN <<"API_KEY_C1">>
    ELSE IF g = "A" THEN <<"API_KEY_A1", "API_KEY_A2", "API_KEY_A3">>
    ELSE <<"API_KEY_B1", "API_KEY_B2", "API_KEY_B3">>

EnvNames == {MasterVar} \cup {SlotNames(g)[i] : g \in {"A", "B"}, i \in 1..3}
                        \cup {SlotNames("C")[1]}

VitePrefixed(name) == "VITE_" \o name

MetaNames == EnvNames \cup {VitePrefixed(n) : n \in EnvNames}

\* getKey of revision 2: process.env, then import.meta.env, then the VITE_
\* prefixed name in import.meta.env, else ''.
getKey(name) ==
    IF processEnv[name] # "" THEN processEnv[name]
    ELSE IF metaEnv[name] # "" THEN metaEnv[name]
    ELSE IF metaEnv[VitePrefixed(name)] # "" THEN metaEnv[VitePrefixed(name)]
    ELSE ""

\* What each revision reads for a name: revision 1 reads process.env only.
Lookup(r, name) == IF r = 1 THEN processEnv[name] ELSE getKey(name)

DEFAULT_KEY(r) == Lookup(r, MasterVar)

OrElseNothing(a, b) == a

\* a || b on strings: a unless it is the empty string
OrElse(a, b) == IF a # "" THEN a ELSE b

MinPlausibleLen == 5

KeepsKeyAtThreshold(r, k) == IF r = 1 THEN k # "" ELSE k # "" /\ Len(k) >= MinPlausibleLen

\* The filter of each revision: filter(Boolean) / filter(k => k && k.length > 5)
KeepsKey(r, k) == IF r = 1 THEN k # "" ELSE k # "" /\ Len(k) > MinPlausibleLen

Filter(s, Keep(_)) == SelectSeq(s, Keep)

\* One fallback for the whole group instead of one per slot
GroupEntryGroupFallback(r, g) ==
    LET slots == SlotNames(g)
        Keep(k) == IF r = 1 THEN k # "" ELSE k # "" /\ Len(k) > MinPlausibleLen
        passing == SelectSeq([i \in 1..Len(slots) |-> Lookup(r, slots[i])], Keep)
    IN IF passing # <<>> THEN passing
       ELSE SelectSeq(<<Lookup(r, MasterVar)>>, Keep)

GroupEntry(r, g) ==
    LET slots == SlotNames(g)
        raw == [i \in 1..Len(slots) |-> OrElse(Lookup(r, slots[i]), DEFAULT_KEY(r))]
        Keep(k) == KeepsKey(r, k)
    IN Filter(raw, Keep)

BuildGroups(r) == [g \in Groups |-> GroupEntry(r, g)]

DedupNothing(s) == s

\* Array.from(new Set(keys)): first occurrences, in order
RECURSIVE Dedup(_)
Dedup(s) ==
    IF s = <<>> THEN <<>>
    ELSE LET front == Dedup(SubSeq(s, 1, Len(s) - 1))
             last == s[Len(s)]
         IN IF \E i \in 1..Len(front) : front[i] = last
            THEN front ELSE Append(front, last)

-----------------------------------------------------------------------------
(* Errors, messages and results *)

\* A message is a sequence of text fragments; the fragments the code searches
\* for or interpolates are fragments of their own.
Includes(msg, fragment) == \E i \in 1..Len(msg) : msg[i] = fragment

IsInfix(sub, msg) ==
    \E i \in 0..(Len(msg) - Len(sub)) : SubSeq(msg, i + 1, i + Len(sub)) = sub

NoStatus == 0              \* error.status and error.response.status undefined
ByInvoker == 0             \* origin of an Error created by executeWithFallback
Undefined == [origin |-> -1, status |-> NoStatus, message |-> <<"undefined">>]

StatusCodes == {NoStatus, 400, 429, 500, 503}
Msgs == {<<"API key", "not valid">>, <<"fetch failed">>}
Results == {"r1", "r2"}

\* An error thrown by the operation call number i
OpError(i, status, msg) == [origin |-> i, status |-> status, message |-> msg]

\* new Error(msg), thrown by executeWithFallback itself
NewError(msg) == [origin |-> ByInvoker, status |-> NoStatus, message |-> msg]

NoOutcome == [kind |-> "none", value |-> "", err |-> Undefined]
Returned(v) == [kind |-> "return", value |-> v, err |-> Undefined]
Thrown(e) == [kind |-> "throw", value |-> "", err |-> e]

-----------------------------------------------------------------------------
(* executeWithFallback: geminiService.ts 25-52 (rev 1) and 185-230 (rev 2) *)

isRetryableWithoutAbsent(status) == status \in {429, 500, 503}

\* rev 1, line 43: !status || [429, 500, 503].includes(status)
isRetryable(status) == status = NoStatus \/ status \in {429, 500, 503}

\* Whether the catch block leaves the loop by rethrowing: rev 1 lines 45-47;
\* the catch block of rev 2 (lines 202-216) never throws.
Rethrows(r, status) == r = 1 /\ ~isRetryable(status)

\* rev 2, lines 191-193
EmptyPoolError ==
    NewError(<<"Nenhuma Chave de API valida encontrada. Verifique se a variavel",
               MasterVar, "esta configurada no Vercel.">>)

ChecksEmptyPool(r) == r = 2

\* rev 2, lines 220-227
friendlyMessage(e) ==
    IF e # Undefined /\ Includes(e.message, "API key")
        THEN "Chave de API invalida."
    ELSE IF e # Undefined /\ Includes(e.message, "429")
        THEN "Sobrecarga no sistema. Aguarde 30s."
    ELSE IF e # Undefined /\ (Includes(e.message, "SAFETY") \/ Includes(e.message, "blocked"))
        THEN "O Mentor foi censurado pelos filtros de seguranca."
    ELSE "Erro de conexao com o Mentor."

\* The Error thrown after the loop: rev 1 line 51, rev 2 line 229
ExhaustionError(r, g, e) ==
    IF r = 1
    THEN NewError(<<"Todas as APIs do Grupo", g,
                    "falharam. Verifique suas chaves. Erro:">> \o e.message)
    ELSE NewError(<<friendlyMessage(e), "(">>
                  \o (IF e = Undefined \/ e.message = <<>>
                      THEN <<"Erro desconhecido">> ELSE e.message)
                  \o <<")">>)

AfterCallNotAwaited == "loop"

\* Where the call is after operation(apiKey) has been started: the await of
\* "return await operation(apiKey)" suspends it until the promise settles.
AfterCall == "await"

Unresolved(k) == [key |-> k, resolved |-> FALSE, ok |-> FALSE, value |-> "", err |-> Undefined]
ResolvedOk(c, v) == [c EXCEPT !.resolved = TRUE, !.ok = TRUE, !.value = v]
ResolvedErr(c, e) == [c EXCEPT !.resolved = TRUE, !.err = e]

authIdle == UNCHANGED authVars
envFixed == UNCHANGED <<rev, processEnv, metaEnv>>

\* Module evaluation: lines 6-22 / 166-182
LoadModule ==
    /\ pc = "unloaded"
    /\ API_GROUPS' = BuildGroups(rev)
    /\ pc' = "idle"
    /\ UNCHANGED <<voiceKey, group, uniqueKeys, idx, lastError, inflight, calls,
                   outcome, invokes>>
    /\ envFixed /\ authIdle

\* getVoiceApiKey: lines 56-60 / 234-238
VoiceKeyOf(keys) ==
    IF Len(keys) = 0 THEN [kind |-> "throw", value |-> ""]
    ELSE [kind |-> "return", value |-> keys[1]]

GetVoiceApiKey ==
    /\ pc = "idle"
    /\ voiceKey.kind = "none"
    /\ voiceKey' = VoiceKeyOf(API_GROUPS["B"])
    /\ UNCHANGED <<API_GROUPS, pc, group, uniqueKeys, idx, lastError, inflight,
                   calls, outcome, invokes>>
    /\ envFixed /\ authIdle

KeysOfEveryGroup(g) == API_GROUPS[g] \o API_GROUPS["A"] \o API_GROUPS["B"] \o API_GROUPS["C"]

\* The keys the invoke reads: API_GROUPS[group] (lines 29 / 189)
KeysOf(g) == API_GROUPS[g]

\* Entry of executeWithFallback up to the loop: lines 29-32 / 189-197
StartInvoke(g) ==
    /\ pc = "idle"
    /\ invokes < MaxInvokes
    /\ group' = g
    /\ calls' = <<>>
    /\ inflight' = {}
    /\ idx' = 0
    /\ lastError' = Undefined
    /\ IF ChecksEmptyPool(rev) /\ Len(KeysOf(g)) = 0
       THEN /\ outcome' = Thrown(EmptyPoolError)
            /\ uniqueKeys' = <<>>
            /\ pc' = "done"
       ELSE /\ outcome' = NoOutcome
            /\ uniqueKeys' = Dedup(KeysOf(g))
            /\ pc' = "loop"
    /\ UNCHANGED <<API_GROUPS, voiceKey, invokes>>
    /\ envFixed /\ authIdle

\* One loop iteration begins: operation(apiKey) is called (lines 34-36 / 199-201)
CallOperation ==
    /\ pc = "loop"
    /\ idx < Len(uniqueKeys)
    /\ idx' = idx + 1
    /\ inflight' = inflight \cup {idx + 1}
    /\ calls' = Append(calls, Unresolved(uniqueKeys[idx + 1]))
    /\ pc' = AfterCall
    /\ UNCHANGED <<API_GROUPS, voiceKey, group, uniqueKeys, lastError, outcome, invokes>>
    /\ envFixed /\ authIdle

\* The awaited promise fulfils: return (lines 36 / 201)
OperationReturns(v) ==
    /\ pc = "await"
    /\ inflight' = inflight \ {idx}
    /\ calls' = [calls EXCEPT ![idx] = ResolvedOk(@, v)]
    /\ outcome' = Returned(v)
    /\ pc' = "done"
    /\ UNCHANGED <<API_GROUPS, voiceKey, group, uniqueKeys, idx, lastError, invokes>>
    /\ envFixed /\ authIdle

\* The awaited promise rejects: the catch block (lines 37-48 / 202-216)
OperationThrows(status, msg) ==
    LET error == OpError(idx, status, msg) IN
    /\ pc = "await"
    /\ inflight' = inflight \ {idx}
    /\ calls' = [calls EXCEPT ![idx] = ResolvedErr(@, error)]
    /\ lastError' = error
    /\ IF Rethrows(rev, status)
       THEN outcome' = Thrown(error) /\ pc' = "done"
       ELSE outcome' = outcome /\ pc' = "loop"
    /\ UNCHANGED <<API_GROUPS, voiceKey, group, uniqueKeys, idx, invokes>>
    /\ envFixed /\ authIdle

\* The loop ends without a return: the throw after it (lines 51 / 219-229)
Exhausted ==
    /\ pc = "loop"
    /\ idx = Len(uniqueKeys)
    /\ outcome' = Thrown(ExhaustionError(rev, group, lastError))
    /\ pc' = "done"
    /\ UNCHANGED <<API_GROUPS, voiceKey, group, uniqueKeys, idx, lastError,
                   inflight, calls, invokes>>
    /\ envFixed /\ authIdle

\* generateContent's answer: the text and the first candidate's finishReason
\* ("" = undefined)
Texts == {"", "t1"}
FinishReasons == {"", "SAFETY", "RECITATION"}
Responses == [text : Texts, finishReason : FinishReasons]

OpReturn(v) == [ok |-> TRUE, value |-> v, message |-> <<>>]
OpThrow(msg) == [ok |-> FALSE, value |-> "", message |-> msg]

\* The operation of generateTextResponse after generateContent has answered:
\* lines 87-91 (rev 1) and 269-277 (rev 2)
TextOperation(r, resp) ==
    IF resp.text # "" THEN OpReturn(resp.text)
    ELSE IF r = 1 THEN OpThrow(<<"O modelo retornou uma resposta vazia.">>)
    ELSE IF resp.finishReason # ""
         THEN OpThrow(<<"Bloqueio de Seguranca (Motivo:", resp.finishReason, ")">>)
    ELSE OpThrow(<<"Resposta vazia do modelo.">>)

\* The operation of generateMentalMapStructure after generateContent has
\* answered: line 132 (rev 1) and line 326 (rev 2)
MapOperation(r, resp) ==
    IF r = 1 THEN OpReturn(resp.text)
    ELSE OpReturn(IF resp.text # "" THEN resp.text ELSE "Erro ao gerar mapa.")

\* generateTextResponse invokes on group A (lines 63 / 241),
\* generateMentalMapStructure on group C (lines 96 / 282)
CallerGroups == {"A", "C"}
OperationOf(r, g, resp) ==
    IF g = "A" THEN TextOperation(r, resp) ELSE MapOperation(r, resp)

\* generateContent answers the call in flight and the operation finishes
GenerateContentResolves(resp) ==
    LET o == OperationOf(rev, group, resp) IN
    /\ group \in CallerGroups
    /\ IF o.ok THEN OperationReturns(o.value)
               ELSE OperationThrows(NoStatus, o.message)

\* The caller receives the outcome; the invoker is free for the next call.
Complete ==
    /\ pc = "done"
    /\ invokes' = invokes + 1
    /\ pc' = "idle"
    /\ group' = "A"
    /\ uniqueKeys' = <<>>
    /\ idx' = 0
    /\ lastError' = Undefined
    /\ calls' = <<>>
    /\ outcome' = NoOutcome
    /\ UNCHANGED <<API_GROUPS, voiceKey, inflight>>
    /\ envFixed /\ authIdle

-----------------------------------------------------------------------------
(* authService.ts: strings, records and the two localStorage entries *)

\* Text is a sequence of characters.
lower(c) == IF c = "A" THEN "a" ELSE IF c = "B" THEN "b" ELSE c

toLowerCase(s) == [i \in 1..Len(s) |-> lower(s[i])]

RECURSIVE trimStart(_)
trimStart(s) == IF s # <<>> /\ Head(s) = " " THEN trimStart(Tail(s)) ELSE s

RECURSIVE trimEnd(_)
trimEnd(s) ==
    IF s # <<>> /\ s[Len(s)] = " " THEN trimEnd(SubSeq(s, 1, Len(s) - 1)) ELSE s

trim(s) == trimEnd(trimStart(s))

\* line 34 / 73: email.toLowerCase().trim()
normalizeEmail(email) == trim(toLowerCase(email))

EmailInputs == {<<"a">>, <<" ", "A", " ">>, <<"b">>}
NameInputs == {<<"n", " ">>}
Passwords == {"p", "q"}

NoProfile == [id |-> 0, name |-> <<>>, email |-> <<>>, createdAt |-> -1]

\* lines 40-46
NewUser(id, name, email, password, createdAt) ==
    [id |-> id, name |-> trim(name), email |-> normalizeEmail(email),
     password |-> password, createdAt |-> createdAt]

ProfileOfFreshId(u) ==
    [id |-> u.id + 1, name |-> u.name, email |-> u.email, createdAt |-> u.createdAt]

ProfileOfWholeRecord(u) == u

\* lines 51-56 / 81-86
ProfileOf(u) == [id |-> u.id, name |-> u.name, email |-> u.email, createdAt |-> u.createdAt]

\* A localStorage entry: absent, or the text JSON.stringify produced.
NoItem == [text |-> "absent", value |-> <<>>]
Stringify(v) == [text |-> "json", value |-> v]
Parses(item) == item.text = "json"
Parse(item) == item.value

\* lines 31-32 / 70-71: usersStr ? JSON.parse(usersStr) : []
ReadUsers == IF users = NoItem THEN <<>> ELSE Parse(users)

NoRet == [op |-> "none", ok |-> FALSE, user |-> NoProfile, error |-> ""]
Resolved(op, profile) == [op |-> op, ok |-> TRUE, user |-> profile, error |-> ""]
Rejected(op, error) == [op |-> op, ok |-> FALSE, user |-> NoProfile, error |-> error]

DuplicateIdentityError == "Este e-mail ja esta registrado no sistema."
InvalidCredentialsError == "Credenciais invalidas. Verifique e-mail e senha."

\* The suspended calls are a bag: two calls with the same arguments may be
\* suspended at once.
Call(op, name, email, password) ==
    [op |-> op, name |-> name, email |-> email, password |-> password]

Suspended == BagToSet(pending)
Suspend(c) == pending (+) SetToBag({c})
Resume(c) == pending (-) SetToBag({c})
MaySuspend == BagCardinality(pending) < MaxPending

geminiIdle == UNCHANGED geminiVars

EmailTakenByName(list, email) == \E i \in 1..Len(list) : list[i].name = email

\* line 36: users.find((u) => u.email === normalizedEmail)
EmailTaken(list, email) == \E i \in 1..Len(list) : list[i].email = email

\* register is called: it suspends in delay(800) (lines 28-29)
RegisterStart(name, email, password) ==
    /\ MaySuspend
    /\ pending' = Suspend(Call("register", name, email, password))
    /\ loggedOut' = FALSE
    /\ UNCHANGED <<users, session, ret, nextId, now>>
    /\ geminiIdle

\* The list is the one read before the delay, when the store was empty
RegisterResumeStaleRead(c, createdAt) ==
    LET list == <<>>
        newUser == NewUser(nextId, c.name, c.email, c.password, createdAt)
    IN
    /\ c \in Suspended
    /\ c.op = "register"
    /\ pending' = Resume(c)
    /\ Len(ReadUsers) < MaxUsers
    /\ createdAt \in {now, now + 1}
    /\ createdAt <= MaxClock
    /\ now' = createdAt
    /\ nextId' = nextId + 1
    /\ users' = Stringify(Append(list, newUser))
    /\ session' = Stringify(ProfileOf(newUser))
    /\ ret' = Resolved("register", ProfileOf(newUser))
    /\ UNCHANGED loggedOut
    /\ geminiIdle

\* register resumes after the delay and runs to its end (lines 31-61)
RegisterResume(c, createdAt) ==
    LET list == ReadUsers
        normalizedEmail == normalizeEmail(c.email)
        newUser == NewUser(nextId, c.name, c.email, c.password, createdAt)
    IN
    /\ c \in Suspended
    /\ c.op = "register"
    /\ pending' = Resume(c)
    /\ IF EmailTaken(list, normalizedEmail)
       THEN /\ ret' = Rejected("register", DuplicateIdentityError)
            /\ UNCHANGED <<users, session, nextId, now>>
       ELSE /\ Len(list) < MaxUsers
            /\ createdAt \in {now, now + 1}
            /\ createdAt <= MaxClock
            /\ now' = createdAt
            /\ nextId' = nextId + 1
            /\ users' = Stringify(Append(list, newUser))
            /\ session' = Stringify(ProfileOf(newUser))
            /\ ret' = Resolved("register", ProfileOf(newUser))
    /\ UNCHANGED loggedOut
    /\ geminiIdle

\* login is called: it suspends in delay(800) (lines 67-68)
LoginStart(email, password) ==
    /\ MaySuspend
    /\ pending' = Suspend(Call("login", <<>>, email, password))
    /\ loggedOut' = FALSE
    /\ UNCHANGED <<users, session, ret, nextId, now>>
    /\ geminiIdle

MatchesEmailOnly(u, email, password) == u.email = email

\* line 75: users.find(...): the first record that matches
Matches(u, email, password) == u.email = email /\ u.password = password

FindUser(list, email, password) ==
    LET hits == {i \in 1..Len(list) : Matches(list[i], email, password)}
    IN IF hits = {} THEN 0 ELSE CHOOSE i \in hits : \A j \in hits : i <= j

\* A session that is already stored is kept
LoginResumeKeepsSession(c) ==
    LET list == ReadUsers
        found == FindUser(list, normalizeEmail(c.email), c.password)
    IN
    /\ c \in Suspended
    /\ c.op = "login"
    /\ pending' = Resume(c)
    /\ IF found = 0
       THEN /\ ret' = Rejected("login", InvalidCredentialsError)
            /\ UNCHANGED session
       ELSE /\ session' = IF session = NoItem THEN Stringify(ProfileOf(list[found])) ELSE session
            /\ ret' = Resolved("login", ProfileOf(list[found]))
    /\ UNCHANGED <<users, nextId, now, loggedOut>>
    /\ geminiIdle

\* A failed login signs the user out
LoginResumeClearsOnFailure(c) ==
    LET list == ReadUsers
        found == FindUser(list, normalizeEmail(c.email), c.password)
    IN
    /\ c \in Suspended
    /\ c.op = "login"
    /\ pending' = Resume(c)
    /\ IF found = 0
       THEN /\ ret' = Rejected("login", InvalidCredentialsError)
            /\ session' = NoItem
       ELSE /\ session' = Stringify(ProfileOf(list[found]))
            /\ ret' = Resolved("login", ProfileOf(list[found]))
    /\ UNCHANGED <<users, nextId, now, loggedOut>>
    /\ geminiIdle

\* login resumes after the delay and runs to its end (lines 70-90)
LoginResume(c) ==
    LET list == ReadUsers
        found == FindUser(list, normalizeEmail(c.email), c.password)
    IN
    /\ c \in Suspended
    /\ c.op = "login"
    /\ pending' = Resume(c)
    /\ IF found = 0
       THEN /\ ret' = Rejected("login", InvalidCredentialsError)
            /\ UNCHANGED session
       ELSE /\ session' = Stringify(ProfileOf(list[found]))
            /\ ret' = Resolved("login", ProfileOf(list[found]))
    /\ UNCHANGED <<users, nextId, now, loggedOut>>
    /\ geminiIdle

GetCurrentUserKeepsEntry ==
    /\ IF session # NoItem /\ Parses(session)
       THEN ret' = Resolved("getCurrentUser", Parse(session))
       ELSE ret' = Resolved("getCurrentUser", NoProfile)
    /\ UNCHANGED <<users, session, pending, nextId, now, loggedOut>>
    /\ geminiIdle

\* getCurrentUser has no suspension point (lines 96-106)
GetCurrentUser ==
    /\ IF session = NoItem
       THEN ret' = Resolved("getCurrentUser", NoProfile) /\ UNCHANGED session
       ELSE IF Parses(session)
       THEN ret' = Resolved("getCurrentUser", Parse(session)) /\ UNCHANGED session
       ELSE ret' = Resolved("getCurrentUser", NoProfile) /\ session' = NoItem
    /\ UNCHANGED <<users, pending, nextId, now, loggedOut>>
    /\ geminiIdle

LogoutStartRemovesLater ==
    /\ MaySuspend
    /\ pending' = Suspend(Call("logout", <<>>, <<>>, ""))
    /\ UNCHANGED <<users, session, ret, nextId, now, loggedOut>>
    /\ geminiIdle

\* logout is called: it removes the entry, then suspends in delay(200) (lines 111-113)
LogoutStart ==
    /\ MaySuspend
    /\ session' = NoItem
    /\ pending' = Suspend(Call("logout", <<>>, <<>>, ""))
    /\ UNCHANGED <<users, ret, nextId, now, loggedOut>>
    /\ geminiIdle

\* logout resumes after the delay and completes (line 114)
LogoutResume(c) ==
    /\ c \in Suspended
    /\ c.op = "logout"
    /\ pending' = Resume(c)
    /\ ret' = Resolved("logout", NoProfile)
    /\ loggedOut' = TRUE
    /\ UNCHANGED <<users, session, nextId, now>>
    /\ geminiIdle

\* Text under SESSION_KEY that JSON.parse rejects, written by something other
\* than authService (another script of the origin, the developer tools).
CorruptItem == [text |-> "garbage", value |-> <<>>]

CorruptSession ==
    /\ session # CorruptItem
    /\ session' = CorruptItem
    /\ UNCHANGED <<users, pending, ret, nextId, now, loggedOut>>
    /\ geminiIdle

-----------------------------------------------------------------------------
(* Initial states and specifications *)

Unset(names) == [n \in names |-> ""]

AuthInit ==
    /\ users = NoItem
    /\ session = NoItem
    /\ pending = EmptyBag
    /\ ret = NoRet
    /\ nextId = 1
    /\ now = 0
    /\ loggedOut = FALSE

InvokerInit ==
    /\ API_GROUPS = [g \in Groups |-> <<>>]
    /\ voiceKey = [kind |-> "none", value |-> ""]
    /\ pc = "unloaded"
    /\ group = "A"
    /\ uniqueKeys = <<>>
    /\ idx = 0
    /\ lastError = Undefined
    /\ inflight = {}
    /\ calls = <<>>
    /\ outcome = NoOutcome
    /\ invokes = 0

\* Environments for the invoker: pools of zero to three distinct keys, pools
\* that differ from one another, with and without a master key.
InvokerEnvs ==
    {[n \in EnvNames |->
        CASE n = "API_KEY" -> m
          [] n = "API_KEY_A1" -> a1
          [] n = "API_KEY_A2" -> a2
          [] n = "API_KEY_A3" -> a3
          [] n = "API_KEY_B1" -> b1
          [] n = "API_KEY_C1" -> c1
          [] OTHER -> ""] :
        m \in {"", "key-00"}, a1 \in {"", "key-01"}, a2 \in {"", "key-01", "key-02"},
        a3 \in {"", "key-03"}, b1 \in {"", "key-04"}, c1 \in {"", "abcde", "key-05"}}

Init ==
    /\ rev \in {1, 2}
    /\ processEnv \in InvokerEnvs
    /\ metaEnv = Unset(MetaNames)
    /\ InvokerInit
    /\ AuthInit

Invoke ==
    \/ \E g \in Groups : StartInvoke(g)
    \/ CallOperation
    \/ \E v \in Results : OperationReturns(v)
    \/ \E status \in StatusCodes, msg \in Msgs : OperationThrows(status, msg)
    \/ Exhausted
    \/ Complete

Next == LoadModule \/ Invoke

Spec == Init /\ [][Next]_vars

\* The awaited promise of operation(apiKey) settles, either way.
OperationResolves ==
    \/ \E v \in Results : OperationReturns(v)
    \/ \E status \in StatusCodes, msg \in Msgs : OperationThrows(status, msg)

\* The invoker under the proviso that every operation call eventually settles;
\* the steps of executeWithFallback itself (the next loop iteration, the throw
\* after the loop) run as soon as the event loop reaches them.
SpecLive ==
    /\ Init /\ [][Next]_vars
    /\ WF_vars(OperationResolves)
    /\ WF_vars(CallOperation)
    /\ WF_vars(Exhausted)

\* The two public callers: the operation's result comes from generateContent,
\* which answers with a response or rejects with an API error.
CallersNext ==
    \/ LoadModule
    \/ \E g \in CallerGroups : StartInvoke(g)
    \/ CallOperation
    \/ \E resp \in Responses : GenerateContentResolves(resp)
    \/ \E status \in StatusCodes, msg \in Msgs : OperationThrows(status, msg)
    \/ Exhausted
    \/ Complete

SpecCallers == Init /\ [][CallersNext]_vars

\* Environments for the resolver: every slot unset, too short, or plausible;
\* equal values in several slots; the master under each of the three lookups.
SlotValues(g) ==
    IF g = "A" THEN {"", "abcde", "key-01", "key-02"}
    ELSE IF g = "B" THEN {"", "abc", "key-01"}
    ELSE {"", "abcde", "key-03"}

ResolverEnvs ==
    {[n \in EnvNames |->
        CASE n = "API_KEY" -> m
          [] n = "API_KEY_A1" -> a[1]
          [] n = "API_KEY_A2" -> a[2]
          [] n = "API_KEY_A3" -> a[3]
          [] n = "API_KEY_B1" -> b[1]
          [] n = "API_KEY_B2" -> b[2]
          [] n = "API_KEY_B3" -> b[3]
          [] OTHER -> c] :
        m \in {"", "abcde", "key-01", "key-00"},
        a \in [1..3 -> SlotValues("A")], b \in [1..3 -> SlotValues("B")],
        c \in SlotValues("C")}

ResolverMetaEnvs ==
    {[n \in MetaNames |->
        CASE n = "API_KEY" -> m
          [] n = "VITE_API_KEY" -> vm
          [] n = "VITE_API_KEY_C1" -> vc
          [] OTHER -> ""] :
        m \in {"", "key-08"}, vm \in {"", "key-09"}, vc \in {"", "abcd"}}

ResolverInit ==
    /\ rev \in {1, 2}
    /\ processEnv \in ResolverEnvs
    /\ metaEnv \in ResolverMetaEnvs
    /\ InvokerInit
    /\ AuthInit

ResolverNext == LoadModule \/ GetVoiceApiKey

SpecResolver == ResolverInit /\ [][ResolverNext]_vars

AuthNext ==
    \/ \E name \in NameInputs, email \in EmailInputs, password \in Passwords :
          RegisterStart(name, email, password)
    \/ \E c \in Suspended, createdAt \in 0..MaxClock : RegisterResume(c, createdAt)
    \/ \E email \in EmailInputs, password \in Passwords :
          LoginStart(email, password)
    \/ \E c \in Suspended : LoginResume(c)
    \/ GetCurrentUser
    \/ LogoutStart
    \/ \E c \in Suspended : LogoutResume(c)

AuthSpecInit ==
    /\ rev = 2
    /\ processEnv = Unset(EnvNames)
    /\ metaEnv = Unset(MetaNames)
    /\ InvokerInit
    /\ AuthInit

SpecAuth == AuthSpecInit /\ [][AuthNext]_vars

\* authService with a store whose session entry may be overwritten from outside
AuthCorruptNext == AuthNext \/ CorruptSession

SpecAuthCorrupt == AuthSpecInit /\ [][AuthCorruptNext]_vars

-----------------------------------------------------------------------------
(* Properties of executeWithFallback *)

Range(s) == {s[i] : i \in 1..Len(s)}
NoDuplicates(s) == \A i, j \in 1..Len(s) : s[i] = s[j] => i = j
CallKeys == [i \in 1..Len(calls) |-> calls[i].key]
Invoking == pc \in {"loop", "await", "done"}
Failed(c) == c.resolved /\ ~c.ok
TerminalStatus(status) == status # NoStatus /\ status \notin {429, 500, 503}
LastCall == calls[Len(calls)]

\* C1: an invoke calls the operation on the pool's distinct credentials in the
\* stored order, each at most once; it goes on after a failure whose status is
\* absent or 429, 500 or 503; it stops at the first call that succeeds and
\* returns that call's result.
C1_CallsInOrderUntilSuccess ==
    Invoking =>
        /\ CallKeys = SubSeq(Dedup(API_GROUPS[group]), 1, Len(calls))
        /\ NoDuplicates(CallKeys)
        /\ \A i \in 1..(Len(calls) - 1) : Failed(calls[i])
        /\ \A i \in 1..Len(calls) : calls[i].ok => pc = "done" /\ outcome = Returned(calls[i].value)
        /\ (pc = "done" /\ outcome.kind = "return") => Len(calls) > 0 /\ LastCall.ok
        /\ (pc = "done" /\ Len(calls) > 0 /\ Len(calls) < Len(Dedup(API_GROUPS[group])))
              => LastCall.ok \/ (Failed(LastCall) /\ TerminalStatus(LastCall.err.status))

C1_Witness ==
    /\ pc = "done"
    /\ Len(calls) = 3
    /\ Failed(calls[1]) /\ calls[1].err.status = 429
    /\ Failed(calls[2]) /\ calls[2].err.status = 429
    /\ calls[3].ok
    /\ outcome = Returned(calls[3].value)

\* C2: a failure with a status that is present and not 429, 500 or 503 ends the
\* invoke at once: no further credential is tried and the caller gets the
\* original error.
C2_TerminalErrorAborts ==
    \A i \in 1..Len(calls) :
        (Failed(calls[i]) /\ TerminalStatus(calls[i].err.status))
            => /\ i = Len(calls)
               /\ pc = "done"
               /\ outcome = Thrown(calls[i].err)

\* C3: an invoke on an empty pool fails at once with a configuration error that
\* names the pool and the environment variable, calls the operation never, and
\* differs from every exhaustion failure.
ExhaustionMessages(g) ==
    {ExhaustionError(rev, g, e).message :
        e \in {Undefined} \cup {OpError(1, s, m) : s \in StatusCodes, m \in Msgs}}

C3_EmptyPoolConfigurationError ==
    (pc = "done" /\ API_GROUPS[group] = <<>>) =>
        /\ calls = <<>>
        /\ outcome.kind = "throw"
        /\ Includes(outcome.err.message, group)
        /\ Includes(outcome.err.message, MasterVar)
        /\ outcome.err.message \notin ExhaustionMessages(group)

\* C4: when every distinct credential was tried and each call failed retryably,
\* the invoke raises one new error whose message holds the pool name and the
\* message of the last underlying error.
AllFailedRetryably ==
    /\ pc = "done"
    /\ Len(calls) > 0
    /\ Len(calls) = Len(Dedup(API_GROUPS[group]))
    /\ \A i \in 1..Len(calls) : Failed(calls[i]) /\ ~TerminalStatus(calls[i].err.status)

C4_ExhaustionNamesPoolAndLastError ==
    AllFailedRetryably =>
        /\ outcome.kind = "throw"
        /\ outcome.err.origin = ByInvoker
        /\ Includes(outcome.err.message, group)
        /\ IsInfix(LastCall.err.message, outcome.err.message)

\* C5: the attempts of one invoke never overlap: at most one operation call is
\* unresolved, and every call before the latest has resolved with a failure.
C5_AttemptsNeverOverlap ==
    /\ Cardinality(inflight) <= 1
    /\ inflight = {i \in 1..Len(calls) : ~calls[i].resolved}
    /\ \A i \in 1..(Len(calls) - 1) : Failed(calls[i])

C5_Witness ==
    /\ pc = "await"
    /\ Len(calls) = 2
    /\ Failed(calls[1])
    /\ inflight = {2}

\* C9: every credential an invoke on a pool passes to the operation is a member
\* of that pool's list, whatever the outcome and whatever other pools hold.
C9_NoCrossPoolFallback ==
    Invoking => \A i \in 1..Len(calls) : calls[i].key \in Range(API_GROUPS[group])

OtherPoolHoldsMore ==
    \E g \in Groups \ {group} : ~(Range(API_GROUPS[g]) \subseteq Range(API_GROUPS[group]))

C9_Witness ==
    /\ pc = "done"
    /\ outcome.kind = "throw"
    /\ outcome.err.origin = ByInvoker
    /\ Len(calls) = 2
    /\ OtherPoolHoldsMore

-----------------------------------------------------------------------------
(* Properties of the credential pools *)

Loaded == pc # "unloaded"
Plausible(k) == Len(k) > MinPlausibleLen
Candidates(g) == [i \in 1..Len(SlotNames(g)) |-> Lookup(rev, SlotNames(g)[i])]
Configured(g) == \E i \in 1..Len(SlotNames(g)) : Candidates(g)[i] # ""
Master == Lookup(rev, MasterVar)

\* C6 as stated: with a candidate configured, the stored entry of a pool has no
\* duplicates, no blanks and no entry of length 5 or less.
C6_StoredPoolClean ==
    Loaded => \A g \in Groups : Configured(g) =>
        /\ NoDuplicates(API_GROUPS[g])
        /\ \A k \in Range(API_GROUPS[g]) : k # "" /\ Plausible(k)

\* C6 as amended: the stored entry of a pool has no blank entry; the list the
\* invoke iterates has neither duplicates nor blanks; and under the definition
\* that filters by length (rev 2) no stored entry has length 5 or less.
C6_IteratedPoolClean ==
    /\ Loaded => \A g \in Groups : \A k \in Range(API_GROUPS[g]) :
            k # "" /\ (rev = 2 => Plausible(k))
    /\ pc \in {"loop", "await"} =>
            /\ NoDuplicates(uniqueKeys)
            /\ Range(uniqueKeys) = Range(API_GROUPS[group])
            /\ \A k \in Range(uniqueKeys) : k # "" /\ (rev = 2 => Plausible(k))

C6_Witness ==
    /\ pc = "loop"
    /\ Configured(group)
    /\ ~NoDuplicates(API_GROUPS[group])
    /\ Len(uniqueKeys) = 2

\* C7 as stated: with no candidate configured for a pool and a plausible master,
\* the pool is the one-element sequence of the master.
MasterOnly(g) == ~Configured(g) /\ Master # "" /\ Plausible(Master)

C7_MasterOnlyPoolIsSingleton ==
    Loaded => \A g \in Groups : MasterOnly(g) => API_GROUPS[g] = <<Master>>

\* C7 as amended: with no candidate configured for a pool and a plausible master,
\* the stored entry holds the master once per slot of the pool (three times for
\* A and B, once for C), and the list the invoke iterates is the master alone.
C7_MasterOnlyPoolIsMasterPerSlot ==
    Loaded => \A g \in Groups : MasterOnly(g) =>
        /\ API_GROUPS[g] = [i \in 1..Len(SlotNames(g)) |-> Master]
        /\ Dedup(API_GROUPS[g]) = <<Master>>

C7_Witness == Loaded /\ MasterOnly("A") /\ MasterOnly("B") /\ MasterOnly("C")

\* C8 as stated: the master is in a pool exactly if no candidate is plausible
\* and the master is; with a plausible candidate the pool is the plausible
\* candidates in index order; with only too-short candidates and a plausible
\* master the pool is the master alone.
PlausibleCandidates(g) ==
    LET Keep(k) == k # "" /\ Plausible(k) IN SelectSeq(Candidates(g), Keep)

C8_MasterIffNoCandidatePasses ==
    Loaded => \A g \in Groups :
        /\ (Master \in Range(API_GROUPS[g]))
              <=> (PlausibleCandidates(g) = <<>> /\ Master # "" /\ Plausible(Master))
        /\ PlausibleCandidates(g) # <<>> => API_GROUPS[g] = PlausibleCandidates(g)
        /\ (Configured(g) /\ PlausibleCandidates(g) = <<>> /\ Master # "" /\ Plausible(Master))
              => API_GROUPS[g] = <<Master>>

\* C8 as amended: the master stands in for each slot of the pool that is unset,
\* one slot at a time: it is in the pool exactly if it passes the filter (not
\* blank; under rev 2 longer than 5) and some slot of the pool is unset or holds
\* the master's value; a slot that is set but fails the filter is dropped and
\* not replaced; a pool whose slots all pass is the candidates in index order.
PassesFilter(k) == k # "" /\ (rev = 2 => Plausible(k))

C8_MasterPerUnsetSlot ==
    Loaded => \A g \in Groups :
        /\ (Master \in Range(API_GROUPS[g]))
              <=> (PassesFilter(Master) /\
                   \E i \in 1..Len(SlotNames(g)) : Candidates(g)[i] \in {"", Master})
        /\ (\A i \in 1..Len(SlotNames(g)) : PassesFilter(Candidates(g)[i]))
              => API_GROUPS[g] = Candidates(g)
        /\ Len(API_GROUPS[g]) =
              Cardinality({i \in 1..Len(SlotNames(g)) :
                              PassesFilter(OrElse(Candidates(g)[i], Master))})

C8_Witness ==
    /\ Loaded
    /\ rev = 2
    /\ Plausible(Master)
    /\ Candidates("A")[1] # "" /\ Plausible(Candidates("A")[1])
    /\ Candidates("A")[2] = ""
    /\ Master \in Range(API_GROUPS["A"])
    /\ Candidates("C")[1] # "" /\ ~Plausible(Candidates("C")[1])
    /\ API_GROUPS["C"] = <<>>

-----------------------------------------------------------------------------
(* Properties of authService *)

\* C10: register fails with the duplicate-identity error whenever the
\* normalized email is the email of a record of the list, and no two records of
\* the list ever have the same email; stored emails are normalized.
RegisterOf(c) == c.op = "register" /\ pending' = Resume(c) /\ ret'.op = "register"

LowerTrimmed(email) ==
    /\ \A i \in 1..Len(email) : email[i] \notin {"A", "B"}
    /\ email # <<>> => email[1] # " " /\ email[Len(email)] # " "

EmailsUnique ==
    /\ \A i, j \in 1..Len(ReadUsers) : ReadUsers[i].email = ReadUsers[j].email => i = j
    /\ \A i \in 1..Len(ReadUsers) : LowerTrimmed(ReadUsers[i].email)

C10_DuplicateRegisterFails ==
    /\ []EmailsUnique
    /\ [][\A c \in Suspended :
            (RegisterOf(c) /\ \E i \in 1..Len(ReadUsers) :
                                 ReadUsers[i].email = normalizeEmail(c.email))
                => ret' = Rejected("register", DuplicateIdentityError) /\ users' = users]_vars

C10_Witness ==
    /\ ret = Rejected("register", DuplicateIdentityError)
    /\ Len(ReadUsers) = 2

\* C11: login succeeds exactly if the list holds a record with the normalized
\* input email and the very input credential, and returns that record's
\* profile; otherwise it fails with the invalid-credentials error.
LoginOf(c) == c.op = "login" /\ pending' = Resume(c) /\ ret'.op = "login"

RecordsFor(email, password) ==
    {i \in 1..Len(ReadUsers) :
        /\ ReadUsers[i].email = normalizeEmail(email)
        /\ ReadUsers[i].password = password}

C11_LoginIffRecordMatches ==
    [][\A c \in Suspended : LoginOf(c) =>
          /\ ret'.ok <=> RecordsFor(c.email, c.password) # {}
          /\ ret'.ok => \E i \in RecordsFor(c.email, c.password) :
                            ret'.user.id = ReadUsers[i].id
          /\ ~ret'.ok => ret' = Rejected("login", InvalidCredentialsError)]_vars

C11_Witness ==
    /\ ret.op = "login"
    /\ ret.ok
    /\ Len(ReadUsers) = 2
    /\ ret.user.id = ReadUsers[1].id
    /\ \E raw \in EmailInputs : raw # ret.user.email /\ normalizeEmail(raw) = ret.user.email

\* C12 as stated: once a logout call has completed, and until a register or
\* login call is invoked, every getCurrentUser call returns absent.
StoreCallOnly == pending' = pending

C12_AbsentAfterLogoutCompleted ==
    [][(loggedOut /\ StoreCallOnly /\ ret'.op = "getCurrentUser")
          => ret'.user = NoProfile]_vars

\* C12 as amended: logout removes the entry when it is called; from then on
\* getCurrentUser returns absent until a register or login call completes with
\* success, whenever that call was invoked.
CallCompletes == BagCardinality(pending') < BagCardinality(pending)
LogoutCalled == pending' = Suspend(Call("logout", <<>>, <<>>, ""))

C12_AbsentFromLogoutCall ==
    [][/\ LogoutCalled => session' = NoItem
       /\ (session = NoItem /\ StoreCallOnly)
             => ret' = Resolved("getCurrentUser", NoProfile) /\ session' = NoItem
       /\ (session = NoItem /\ session' # NoItem)
             => /\ CallCompletes
                /\ ret'.ok
                /\ ret'.op \in {"register", "login"}
                /\ session' = Stringify(ret'.user)]_vars

C12_Witness ==
    /\ ret = Resolved("getCurrentUser", NoProfile)
    /\ loggedOut
    /\ Len(ReadUsers) = 2
    /\ \E c \in Suspended : c.op = "login"

\* C13: with a session entry that is present and does not parse, getCurrentUser
\* returns absent without an error and removes the entry; the identity list
\* stays as it is.
Unparsable(item) == item # NoItem /\ item.text # "json"

PublicFields(u) == [id |-> u.id, name |-> u.name, email |-> u.email, createdAt |-> u.createdAt]

C15_SessionIsSomeRecord ==
    session # NoItem =>
        /\ session.text = "json"
        /\ \E i \in 1..Len(ReadUsers) : session.value = PublicFields(ReadUsers[i])

C15_Witness ==
    /\ session # NoItem
    /\ Len(ReadUsers) = 2
    /\ session.value.id = ReadUsers[1].id
    /\ ret.op = "getCurrentUser"

\* C16: the session entry and every profile a call returns have the fields id,
\* name, email and createdAt and no credential field.
ProfileFields == {"id", "name", "email", "createdAt"}

C16_NoCredentialLeaves ==
    /\ session # NoItem => DOMAIN session.value = ProfileFields
    /\ DOMAIN ret.user = ProfileFields
    /\ \A i \in 1..Len(ReadUsers) : "password" \in DOMAIN ReadUsers[i]

C16_Witness ==
    /\ session # NoItem
    /\ ret.ok /\ ret.op = "login"
    /\ Len(ReadUsers) = 2
    /\ ReadUsers[1].password # ReadUsers[2].password

\* C17: when a register or login call completes with success, the session entry
\* is the profile the call returns, whatever was stored before; the store has
\* one session entry, which is absent or one profile.
SucceedsNow == CallCompletes /\ ret'.ok /\ ret'.op \in {"register", "login"}

C17_SessionIsReturnedProfile ==
    [][/\ SucceedsNow => session' = Stringify(ret'.user)
       /\ session' # NoItem => DOMAIN session'.value = ProfileFields]_vars

C17_Witness ==
    /\ ret.ok /\ ret.op = "login"
    /\ session = Stringify(ret.user)
    /\ Len(ReadUsers) = 2
    /\ ret.user.id = ReadUsers[1].id
    /\ pending = EmptyBag

\* C18: a register call that fails with the duplicate-identity error and a
\* login call that fails with the invalid-credentials error change neither the
\* identity list nor the session entry.
FailsNow == CallCompletes /\ ~ret'.ok /\ ret'.op \in {"register", "login"}

C18_FailedCallChangesNothing ==
    [][FailsNow => /\ users' = users
                   /\ session' = session
                   /\ ret'.error \in {DuplicateIdentityError, InvalidCredentialsError}]_vars

C18_Witness ==
    /\ ret = Rejected("login", InvalidCredentialsError)
    /\ session # NoItem
    /\ Len(ReadUsers) = 1

\* C19: with register calls suspended at the same time, whatever the order in
\* which they resume, the list never holds two records with one email, a
\* successful register appends exactly its record, and no record already in the
\* list is changed or dropped.
RegisterSucceeds == CallCompletes /\ ret'.ok /\ ret'.op = "register"

C19_OverlappingRegistersKeepList ==
    /\ [](\A i, j \in 1..Len(ReadUsers) :
              ReadUsers[i].email = ReadUsers[j].email => i = j)
    /\ [][/\ Len(ReadUsers') >= Len(ReadUsers)
          /\ SubSeq(ReadUsers', 1, Len(ReadUsers)) = ReadUsers
          /\ RegisterSucceeds
                => /\ Len(ReadUsers') = Len(ReadUsers) + 1
                   /\ PublicFields(ReadUsers'[Len(ReadUsers')]) = ret'.user]_vars

C19_Witness ==
    /\ Len(ReadUsers) = 1
    /\ ret.ok /\ ret.op = "register"
    /\ \E c \in Suspended :
          /\ c.op = "register"
          /\ c.email # ReadUsers[1].email
          /\ normalizeEmail(c.email) = ReadUsers[1].email
    /\ BagCardinality(pending) = 1
    /\ nextId = 2

-----------------------------------------------------------------------------
(* Properties of the public callers *)

\* C14: when generateContent withholds the output (empty text with a finish
\* reason), generateTextResponse and generateMentalMapStructure do not return
\* (neither empty nor placeholder text); the call fails with an error that
\* differs from the error for a plain empty answer and from the API errors, and
\* what the caller gets in the end differs from the configuration error and
\* from the exhaustion failure of API errors.
Withheld == {resp \in Responses : resp.text = "" /\ resp.finishReason # ""}
PlainEmpty == [text |-> "", finishReason |-> ""]
WithheldMessages(g) == {OperationOf(rev, g, resp).message : resp \in Withheld}

C14_WithheldOutputIsSafetyError ==
    [][/\ \A resp \in Withheld : GenerateContentResolves(resp) =>
              /\ ~calls'[idx].ok
              /\ outcome'.kind # "return"
              /\ calls'[idx].err.message # OperationOf(rev, group, PlainEmpty).message
              /\ calls'[idx].err.message \notin Msgs
       /\ (Exhausted /\ group \in CallerGroups /\ lastError.message \in WithheldMessages(group))
              => /\ outcome'.err.message # EmptyPoolError.message
                 /\ outcome'.err.message \notin ExhaustionMessages(group)]_vars

-----------------------------------------------------------------------------
(* Termination of an invoke *)

\* C20: provided every operation call eventually resolves, every invoke
\* eventually completes; it completes with exactly one outcome (a result, a
\* re-raised error, the configuration error or an exhaustion failure), which
\* is set once; it calls the operation at most as many times as the pool holds
\* distinct credentials and never twice with the same credential.
DistinctCredentials(g) == Cardinality(Range(API_GROUPS[g]))

OutcomeKinds ==
    {Returned(v) : v \in Results}
        \cup {Thrown(OpError(i, s, m)) : i \in 1..Len(calls), s \in StatusCodes, m \in Msgs}
        \cup {Thrown(EmptyPoolError)}
        \cup {Thrown(NewError(m)) : m \in ExhaustionMessages(group)}

BoundedCalls ==
    Invoking =>
        /\ Len(calls) <= DistinctCredentials(group)
        /\ NoDuplicates(CallKeys)
        /\ (pc = "done") = (outcome # NoOutcome)
        /\ pc = "done" => outcome \in OutcomeKinds

OutcomeSetOnce ==
    (Invoking /\ outcome # NoOutcome) => (outcome' = outcome \/ pc' = "idle")

C20_InvokeCompletesWithinPool ==
    /\ []BoundedCalls
    /\ [][OutcomeSetOnce]_vars
    /\ (pc \in {"loop", "await"}) ~> (pc = "done")

C20_Witness ==
    /\ pc = "done"
    /\ Len(API_GROUPS[group]) > DistinctCredentials(group)
    /\ Len(calls) = DistinctCredentials(group)
    /\ Len(calls) >= 2
    /\ outcome.kind = "throw"

====
